---------------------------- MODULE Spec2Model ----------------------------
(***************************************************************************)
(* Rainbow Radar: the solar-position, grid and scoring library             *)
(* (lib/sun.ts, lib/geo.ts) and the React components that drive it         *)
(* (components/Map.tsx, components/SearchBar.tsx, App.tsx).                *)
(*                                                                         *)
(* Numbers.  The program computes in IEEE doubles; the model computes in   *)
(* fixed point on integers:                                                *)
(*   - weights and scores in units of 1/Unit (Unit = 10^4), rounded down;  *)
(*   - angles in hundredths of a degree ("cdeg");                          *)
(*   - rain rates in tenths of a mm/h, cloud cover in percent,             *)
(*     visibility and grid offsets in metres, time in minutes.             *)
(* NaN is a value of its own and propagates as in JavaScript: through      *)
(* arithmetic, Math.min/Math.max/Math.abs/Math.exp/Math.pow, and every     *)
(* comparison with it is false.                                            *)
(* A weight below 1/Unit is 0 in the model where the double is a tiny      *)
(* positive number: the cells far from the antisolar bearing, which the    *)
(* program scores just above 0, score 0 here.                              *)
(***************************************************************************)
EXTENDS Integers, Sequences, FiniteSets, TLC

VARIABLES
    scoreCall,  \* one call of computeRainbowProbabilityScore: parameters and result
    gridCall,   \* one call of buildGridAround: arguments and outcome
    sunCall,    \* one call of getSunAnglesForTime: arguments, host and result
    \* MapView (components/Map.tsx)
    center,           \* useState center: [lat, lon] in deg5
    zoom,             \* useState zoom
    owm,              \* useState owm: <<>> (null) or <<response>>
    status,           \* useState status
    timeOffsetHours,  \* useState timeOffsetHours
    heatReady,        \* heatLayerRef.current and mapRef.current are set
    heat,             \* the points last given to heatLayer.setLatLngs
    fetches,          \* fetchOneCall calls in flight, each with its effect's `aborted`
    issued,           \* fetchOneCall calls made so far
    lastPass,         \* what the last run of the heatmap effect did
    \* the host
    clock,            \* index of the current instant in ClockInstants
    hostOffset        \* Date.getTimezoneOffset()

callVars == <<scoreCall, gridCall, sunCall>>
appVars == <<center, zoom, owm, status, timeOffsetHours, heatReady, heat,
             fetches, issued, lastPass, clock, hostOffset>>
vars == <<callVars, appVars>>

---------------------------------------------------------------------------
(* Number representation *)

Unit == 10^4
NaN == -(2^30)

IsNaN(x) == x = NaN

Min(a, b) == IF a <= b THEN a ELSE b
Max(a, b) == IF a >= b THEN a ELSE b

\* Math.min / Math.max / Math.abs: NaN if an argument is NaN.
MathMin(a, b) == IF IsNaN(a) \/ IsNaN(b) THEN NaN ELSE Min(a, b)
MathMax(a, b) == IF IsNaN(a) \/ IsNaN(b) THEN NaN ELSE Max(a, b)
MathAbs(a) == IF IsNaN(a) THEN NaN ELSE IF a < 0 THEN -a ELSE a

\* Division of a non-negative integer, rounded down; and of any integer,
\* rounded toward zero (the fixed-point image of a real quotient).
DivT(a, b) == IF a >= 0 THEN a \div b ELSE -((-a) \div b)

\* exp(-k) * Unit for k = 0 .. 10
ExpNegInt == <<10000, 3679, 1353, 498, 183, 67, 25, 9, 3, 1, 0>>

\* exp(-f/Unit) * Unit for 0 <= f < Unit: the Taylor series to eight terms.
ExpNegFrac(f) ==
    LET t1 == f
        t2 == (t1 * f) \div (2 * Unit)
        t3 == (t2 * f) \div (3 * Unit)
        t4 == (t3 * f) \div (4 * Unit)
        t5 == (t4 * f) \div (5 * Unit)
        t6 == (t5 * f) \div (6 * Unit)
        t7 == (t6 * f) \div (7 * Unit)
        t8 == (t7 * f) \div (8 * Unit)
    IN  Unit - t1 + t2 - t3 + t4 - t5 + t6 - t7 + t8

\* Math.exp(-q/Unit) * Unit for q >= 0.
ExpNeg(q) ==
    IF q >= 10 * Unit THEN 0
    ELSE (ExpNegInt[(q \div Unit) + 1] * ExpNegFrac(q % Unit)) \div Unit

\* -ln(1 - u/Unit) * Unit for 0 <= u <= Unit/2: u + u^2/2 + u^3/3 + ...
RECURSIVE LnSeries(_, _, _)
LnSeries(u, term, n) ==
    IF term = 0 \/ n > 14 THEN 0
    ELSE term \div n + LnSeries(u, (term * u) \div Unit, n + 1)

\* -ln(a/Unit) * Unit for 1 <= a <= Unit: halve the range, then the series.
RECURSIVE LnNeg(_)
LnNeg(a) ==
    IF 2 * a <= Unit THEN 6931 + LnNeg(2 * a)
    ELSE LnSeries(Unit - a, Unit - a, 1)

\* Math.pow(w/Unit, p10/10) * Unit.  A negative base with a fractional
\* exponent is NaN, pow(0, p) = 0 for p > 0.
MathPow(w, p10) ==
    IF IsNaN(w) \/ w < 0 THEN NaN
    ELSE IF w = 0 THEN 0
    ELSE IF w <= Unit THEN ExpNeg((p10 * LnNeg(w)) \div 10)
    ELSE LET inv == ExpNeg((p10 * LnNeg((Unit * Unit) \div w)) \div 10)
         IN  IF inv = 0 THEN Unit * Unit ELSE (Unit * Unit) \div inv

\* Math.exp(-(x^2)) * Unit where x^2 * Unit = sq.
ExpNegSq(sq) == IF IsNaN(sq) THEN NaN ELSE ExpNeg(sq)

\* a * b of two weights.
Mul(a, b) == IF IsNaN(a) \/ IsNaN(b) THEN NaN ELSE (a * b) \div Unit

---------------------------------------------------------------------------
(* lib/sun.ts: computeRainbowProbabilityScore *)

sigmaTheta == 18
MaxSunElevationDeg == 42
HeuristicRainTenths == 2
DefaultClouds == 50
DefaultVisibility == 10000

\* An optional numeric field (clouds?, visibility?).
Absent == [has |-> FALSE, v |-> 0]
Num(x) == [has |-> TRUE, v |-> x]

\* weather.rain: absent, a bare number, or an object with an optional '1h'.
RainAbsent == [tag |-> "absent", has1h |-> FALSE, v |-> 0]
RainNumber(x) == [tag |-> "number", has1h |-> FALSE, v |-> x]
RainObject == [tag |-> "object", has1h |-> FALSE, v |-> 0]
RainHourly(x) == [tag |-> "object", has1h |-> TRUE, v |-> x]

\* A variant that drops the absolute value of the first operand.
deltaThetaMinOnly(bearing, antisolar) ==
    IF IsNaN(bearing) \/ IsNaN(antisolar) THEN NaN
    ELSE MathMin(bearing - antisolar, 36000 - MathAbs(bearing - antisolar))

\* min(|b - a|, 360 - |b - a|), in cdeg (lines 118-121).
deltaTheta(bearing, antisolar) ==
    IF IsNaN(bearing) \/ IsNaN(antisolar) THEN NaN
    ELSE MathMin(MathAbs(bearing - antisolar),
                 36000 - MathAbs(bearing - antisolar))

\* exp(-(deltaTheta / sigmaTheta)^2)
w_azi(dTheta) ==
    IF IsNaN(dTheta) THEN NaN
    ELSE ExpNegSq((dTheta * dTheta) \div (sigmaTheta * sigmaTheta))

\* max(0, 1 - sunElevationDeg / 42)
w_sun(elev) ==
    IF IsNaN(elev) THEN NaN
    ELSE MathMax(0, Unit - DivT(elev * Unit, MaxSunElevationDeg * 100))

\* !mmh: zero and NaN are falsy.
Falsy(x) == x = 0 \/ IsNaN(x)

\* The rain rate the score uses, in tenths of a mm/h (lines 127-135).
rainRate(weather) ==
    LET mmh == IF weather.rain.tag = "number" THEN weather.rain.v
               ELSE IF weather.rain.tag = "object" /\ weather.rain.has1h
                    THEN weather.rain.v
                    ELSE 0
    IN  IF Falsy(mmh) /\ Len(weather.weather) > 0
        THEN LET id == weather.weather[1]
             IN  IF (id >= 300 /\ id < 400) \/ (id >= 500 /\ id < 600)
                 THEN HeuristicRainTenths
                 ELSE mmh
        ELSE mmh

\* A variant that takes 2 mm/h off the rate first.
w_rainMinus(mmh) ==
    IF IsNaN(mmh) THEN NaN ELSE MathMin(Unit, DivT((mmh - 20) * Unit, 10))

\* min(1, mmh / 2.0) (line 136)
w_rain(mmh) ==
    IF IsNaN(mmh) THEN NaN ELSE MathMin(Unit, DivT(mmh * Unit, 20))

\* exp(-((clouds - 50) / 30)^2), clouds defaulting to 50
w_cloud(weather) ==
    LET clouds == IF weather.clouds.has THEN weather.clouds.v ELSE DefaultClouds
    IN  IF IsNaN(clouds) THEN NaN
        ELSE ExpNegSq(((clouds - 50) * (clouds - 50) * Unit) \div (30 * 30))

\* min(1, visibility / 10000), visibility defaulting to 10000
w_vis(weather) ==
    LET visibility == IF weather.visibility.has THEN weather.visibility.v
                      ELSE DefaultVisibility
    IN  IF IsNaN(visibility) THEN NaN
        ELSE MathMin(Unit, DivT(visibility * Unit, 10000))

\* A variant of the gate without its lower bound.
SunTooHighOnly(elev) == ~IsNaN(elev) /\ elev >= MaxSunElevationDeg * 100

\* The gate of line 116; a comparison with NaN is false.
SunOutOfRange(elev) ==
    ~IsNaN(elev) /\ (elev <= 0 \/ elev >= MaxSunElevationDeg * 100)

\* The weighted geometric mean of line 144.
RPS(p) ==
    LET wa == MathPow(w_azi(deltaTheta(p.bearingUserToCellDeg, p.antisolarAzimuthDeg)), 4)
        ws == MathPow(w_sun(p.sunElevationDeg), 8)
        wr == MathPow(w_rain(rainRate(p.weather)), 12)
        wc == MathPow(w_cloud(p.weather), 6)
        wv == MathPow(w_vis(p.weather), 4)
    IN  Mul(Mul(Mul(Mul(wa, ws), wr), wc), wv)

computeRainbowProbabilityScore(p) ==
    IF SunOutOfRange(p.sunElevationDeg) THEN 0
    ELSE MathMax(0, MathMin(Unit, RPS(p)))

---------------------------------------------------------------------------
(* One call of computeRainbowProbabilityScore on drawn parameters *)

ScoreElevations == {-500, 0, 1, 2000, 4199, 4200, 6000}
ScoreBearings == {0, 9000, 18000, 35999}
ScoreAntisolars == {0, 4500, 27000}
ScoreRainRates == {0, 5, 30, -10}
ScoreRains ==
    {RainAbsent, RainObject}
        \cup {RainNumber(x) : x \in ScoreRainRates}
        \cup {RainHourly(x) : x \in ScoreRainRates}
ScoreClouds == {Absent, Num(0), Num(50), Num(100)}
ScoreVisibilities == {Absent, Num(0), Num(5000), Num(20000), Num(-1)}
ScoreConditions == {<<>>, <<299>>, <<300>>, <<400>>, <<599>>, <<800, 500>>}

ScoreWeathers ==
    [rain : ScoreRains, clouds : ScoreClouds,
     visibility : ScoreVisibilities, weather : ScoreConditions]

ScoreParams ==
    [antisolarAzimuthDeg : ScoreAntisolars, sunElevationDeg : ScoreElevations,
     weather : ScoreWeathers, bearingUserToCellDeg : ScoreBearings]

NoScoreResult == [score |-> 0, deltaTheta |-> 0, mmh |-> 0]

ScoreIdle ==
    [p |-> [antisolarAzimuthDeg |-> 0, sunElevationDeg |-> 0,
            weather |-> [rain |-> RainAbsent, clouds |-> Absent,
                         visibility |-> Absent, weather |-> <<>>],
            bearingUserToCellDeg |-> 0],
     done |-> TRUE, ret |-> NoScoreResult]

---------------------------------------------------------------------------
(* Trigonometry on fixed point: angles in cdeg, sines and cosines in 1/Unit *)

\* sin(d degrees) * Unit for d = 0 .. 90
SinTable ==
    <<0, 175, 349, 523, 698, 872, 1045, 1219, 1392, 1564, 1736, 1908, 2079,
      2250, 2419, 2588, 2756, 2924, 3090, 3256, 3420, 3584, 3746, 3907, 4067,
      4226, 4384, 4540, 4695, 4848, 5000, 5150, 5299, 5446, 5592, 5736, 5878,
      6018, 6157, 6293, 6428, 6561, 6691, 6820, 6947, 7071, 7193, 7314, 7431,
      7547, 7660, 7771, 7880, 7986, 8090, 8192, 8290, 8387, 8480, 8572, 8660,
      8746, 8829, 8910, 8988, 9063, 9135, 9205, 9272, 9336, 9397, 9455, 9511,
      9563, 9613, 9659, 9703, 9744, 9781, 9816, 9848, 9877, 9903, 9925, 9945,
      9962, 9976, 9986, 9994, 9998, 10000>>

\* sin on [0, 9000] cdeg, interpolated between whole degrees.
SinQuadrant(a) ==
    LET d == a \div 100
        r == a % 100
    IN  IF r = 0 THEN SinTable[d + 1]
        ELSE SinTable[d + 1] + ((SinTable[d + 2] - SinTable[d + 1]) * r) \div 100

\* normalizeAngle360: deg % 360, plus 360 when negative.
normalizeAngle360(a) == IF IsNaN(a) THEN NaN ELSE a % 36000

\* Math.sin(deg2rad(a)) * Unit
MathSin(a) ==
    IF IsNaN(a) THEN NaN
    ELSE LET n == a % 36000
         IN  IF n <= 9000 THEN SinQuadrant(n)
             ELSE IF n <= 18000 THEN SinQuadrant(18000 - n)
             ELSE IF n <= 27000 THEN -SinQuadrant(n - 18000)
             ELSE -SinQuadrant(36000 - n)

\* Math.cos(deg2rad(a)) * Unit
MathCos(a) == IF IsNaN(a) THEN NaN ELSE MathSin(a + 9000)

\* The largest a in [lo, hi] with sin(a) * x <= cos(a) * y (x, y >= 0).
RECURSIVE AtanSearch(_, _, _, _)
AtanSearch(y, x, lo, hi) ==
    IF lo >= hi THEN lo
    ELSE LET mid == (lo + hi + 1) \div 2
         IN  IF SinQuadrant(mid) * x <= SinQuadrant(9000 - mid) * y
             THEN AtanSearch(y, x, mid, hi)
             ELSE AtanSearch(y, x, lo, mid - 1)

\* Both arguments halved until they fit the products of AtanSearch.
RECURSIVE AtanScaled(_, _)
AtanScaled(y, x) ==
    IF y > 100000 \/ x > 100000 THEN AtanScaled(y \div 2, x \div 2)
    ELSE AtanSearch(y, x, 0, 9000)

\* rad2deg(Math.atan2(y, x)) in cdeg, in (-18000, 18000]; atan2(0, 0) = 0.
MathAtan2(y, x) ==
    IF IsNaN(y) \/ IsNaN(x) THEN NaN
    ELSE IF y = 0 /\ x = 0 THEN 0
    ELSE LET a == AtanScaled(IF y < 0 THEN -y ELSE y, IF x < 0 THEN -x ELSE x)
         IN  IF x >= 0 /\ y >= 0 THEN a
             ELSE IF x < 0 /\ y >= 0 THEN 18000 - a
             ELSE IF x < 0 /\ y < 0 THEN a - 18000
             ELSE -a

\* The largest a in [lo, hi] with sin(a) <= s.
RECURSIVE AsinSearch(_, _, _)
AsinSearch(s, lo, hi) ==
    IF lo >= hi THEN lo
    ELSE LET mid == (lo + hi + 1) \div 2
         IN  IF SinQuadrant(mid) <= s THEN AsinSearch(s, mid, hi)
             ELSE AsinSearch(s, lo, mid - 1)

\* rad2deg(Math.asin(s / Unit)) in cdeg; NaN outside [-1, 1].
MathAsin(s) ==
    IF IsNaN(s) \/ s > Unit \/ s < -Unit THEN NaN
    ELSE IF s >= 0 THEN AsinSearch(s, 0, 9000)
    ELSE -AsinSearch(-s, 0, 9000)

---------------------------------------------------------------------------
(* lib/geo.ts.  Latitudes and longitudes in units of 10^-5 degree ("deg5"), *)
(* offsets and radii in metres.                                            *)

Deg5 == 10^5

\* deg5 -> cdeg, the argument of the trigonometry
ToCdeg(x) == IF IsNaN(x) THEN NaN ELSE x \div 1000

\* (metres / EARTH_RADIUS_M) * RAD2DEG in deg5: 1 m = 0.89932 * 10^-5 degree
MetersToDeg5(m) == DivT(m * 8993, 10000)

\* offsetMetersToLatLon.  cos(lat) is never 0 in doubles (cos(90 deg) is
\* 6e-17); the model's centres stay off the poles, where its cosine is 0.
offsetMetersToLatLon(lat, lon, dxMeters, dyMeters) ==
    IF IsNaN(lat) \/ IsNaN(lon) THEN [lat |-> NaN, lon |-> NaN]
    ELSE LET c == MathCos(ToCdeg(lat))
             dLat == MetersToDeg5(dyMeters)
             dLon == IF c = 0 THEN 0 ELSE DivT(dxMeters * 8993, c)
         IN  [lat |-> lat + dLat, lon |-> lon + dLon]

\* sin and 1 - cos of an angle x in deg5, in units of 10^-7: within two
\* degrees by sin x = x in radians and 1 - cos x = x^2 / 2, which keeps the
\* resolution the bearings of neighbouring cells need.
SinSmall(x) ==
    IF MathAbs(x) <= 2 * Deg5 THEN DivT(x * 1745, 1000)
    ELSE MathSin(ToCdeg(x)) * 1000
OneMinusCosSmall(x) ==
    IF MathAbs(x) <= 2 * Deg5
    THEN LET s == DivT(x * 1745, 10000) IN (s * s) \div 200000
    ELSE (Unit - MathCos(ToCdeg(x))) * 1000

\* computeBearingDegrees:
\*   y = sin(dlambda) cos(phi2)
\*   x = cos(phi1) sin(phi2) - sin(phi1) cos(phi2) cos(dlambda)
\*     = sin(phi2 - phi1) + sin(phi1) cos(phi2) (1 - cos(dlambda))
\* in cdeg, normalised by (bearing + 360) % 360.
computeBearingDegrees(lat1, lon1, lat2, lon2) ==
    IF IsNaN(lat1) \/ IsNaN(lon1) \/ IsNaN(lat2) \/ IsNaN(lon2) THEN NaN
    ELSE LET sin1 == MathSin(ToCdeg(lat1))
             cos2 == MathCos(ToCdeg(lat2))
             y == DivT(SinSmall(lon2 - lon1) * cos2, Unit)
             x == SinSmall(lat2 - lat1)
                  + DivT(DivT(sin1 * cos2, Unit) * OneMinusCosSmall(lon2 - lon1), Unit)
         IN  (MathAtan2(y, x) + 36000) % 36000

\* Math.ceil(a / b) and Math.floor(a / 2) for finite a and b # 0.
CeilDiv(a, b) == IF b > 0 THEN -((-a) \div b) ELSE -(a \div (-b))

\* A variant of the inner loop that pushes every lattice point.
RECURSIVE gridRowUncropped(_, _, _, _, _)
gridRowUncropped(ix, iy, half, radiusMeters, spacingMeters) ==
    IF ix > half THEN <<>>
    ELSE <<[ix |-> ix, iy |-> iy]>>
         \o gridRowUncropped(ix + 1, iy, half, radiusMeters, spacingMeters)

\* The inner loop of buildGridAround from ix on, in row iy: the offsets
\* pushed, in the order pushed.
RECURSIVE gridRow(_, _, _, _, _)
gridRow(ix, iy, half, radiusMeters, spacingMeters) ==
    IF ix > half THEN <<>>
    ELSE LET dx == ix * spacingMeters
             dy == iy * spacingMeters
             \* Math.hypot(dx, dy) <= radiusMeters
             inside == radiusMeters >= 0
                       /\ dx * dx + dy * dy <= radiusMeters * radiusMeters
             rest == gridRow(ix + 1, iy, half, radiusMeters, spacingMeters)
         IN  IF inside THEN <<[ix |-> ix, iy |-> iy]>> \o rest ELSE rest

\* The outer loop from iy on.
RECURSIVE gridLoop(_, _, _, _)
gridLoop(iy, half, radiusMeters, spacingMeters) ==
    IF iy > half THEN <<>>
    ELSE gridRow(-half, iy, half, radiusMeters, spacingMeters)
         \o gridLoop(iy + 1, half, radiusMeters, spacingMeters)

\* buildGridAround: whether the call returns, the offsets it pushed and the
\* points it returns.  With spacingMeters = 0 the step count is not finite:
\*   radius > 0:  steps = ceil(+Infinity), half = Infinity; iy starts at
\*                -Infinity and iy++ leaves it there: the loop never ends;
\*   radius = 0:  steps = ceil(NaN); NaN <= NaN is false: no iteration;
\*   radius < 0:  half = -Infinity; +Infinity <= -Infinity is false.
buildGridAround(centerLat, centerLon, radiusMeters, spacingMeters) ==
    IF spacingMeters = 0
    THEN [returns |-> radiusMeters <= 0, offsets |-> <<>>, points |-> <<>>]
    ELSE LET steps == CeilDiv(radiusMeters * 2, spacingMeters)
             half == steps \div 2
             offsets == gridLoop(-half, half, radiusMeters, spacingMeters)
         IN  [returns |-> TRUE,
              offsets |-> offsets,
              points |-> [i \in 1..Len(offsets) |->
                            offsetMetersToLatLon(centerLat, centerLon,
                                                 offsets[i].ix * spacingMeters,
                                                 offsets[i].iy * spacingMeters)]]

---------------------------------------------------------------------------
(* lib/sun.ts: getSunAnglesForTime.  An instant is a whole number of       *)
(* minutes since 1970-01-01T00:00Z; tzOffset is the host's                 *)
(* Date.getTimezoneOffset() (minutes, UTC minus local time).               *)

MinutesPerDay == 1440

\* getUTCFullYear / getUTCMonth + 1 / getUTCDate of the day `days` days
\* after 1970-01-01 (the proleptic Gregorian calendar).
CivilFromDays(days) ==
    LET z == days + 719468
        era == z \div 146097
        doe == z - era * 146097
        yoe == (doe - doe \div 1460 + doe \div 36524 - doe \div 146096) \div 365
        doy == doe - (365 * yoe + yoe \div 4 - yoe \div 100)
        mp == (5 * doy + 2) \div 153
        m == IF mp < 10 THEN mp + 3 ELSE mp - 9
    IN  [year |-> yoe + era * 400 + (IF m <= 2 THEN 1 ELSE 0),
         month |-> m,
         day |-> doy - (153 * mp + 2) \div 5 + 1]

\* Date.UTC(year, month - 1, day) / 86400000
DaysFromCivil(year, month, day) ==
    LET y == IF month <= 2 THEN year - 1 ELSE year
        era == y \div 400
        yoe == y - era * 400
        doy == (153 * (IF month > 2 THEN month - 3 ELSE month + 9) + 2) \div 5 + day - 1
        doe == yoe * 365 + yoe \div 4 - yoe \div 100 + doy
    IN  era * 146097 + doe - 719468

\* The instant whose UTC fields the computation reads (lines 34-35):
\* millis + date.getTimezoneOffset() * 60000.
timeUTC(date, tzOffset) == date + tzOffset

\* a % b of JavaScript: the sign of the dividend.
JsRem(a, b) == IF a >= 0 THEN a % b ELSE -((-a) % b)

\* trueSolarTime in hundredths of a minute (line 81)
trueSolarTimeOf(minutes, timeOffset) ==
    IF IsNaN(timeOffset) THEN NaN
    ELSE JsRem(minutes * 100 + timeOffset, MinutesPerDay * 100)

\* A variant of line 82 without the branch for a negative quotient.
hourAngleAlwaysMinus(trueSolarTime) ==
    IF IsNaN(trueSolarTime) THEN NaN
    ELSE trueSolarTime \div 4 - 18000

\* hourAngle in cdeg (line 82).  The quotient is rounded down, so that it
\* is negative exactly when trueSolarTime is, as trueSolarTime / 4 is.
hourAngleOf(trueSolarTime) ==
    IF IsNaN(trueSolarTime) THEN NaN
    ELSE IF trueSolarTime \div 4 < 0 THEN trueSolarTime \div 4 + 18000
    ELSE trueSolarTime \div 4 - 18000

\* getSunAnglesForTime(lat, lon, date) on a host with tzOffset, a step at
\* a time: angles in cdeg; e, y in 10^-6; the equation of time in 1/100
\* minute.  Terms below the resolution (T^2 in L0 and M, T^2 and T^3 in
\* epsilon0) are dropped.

\* Lines 34-44: the UTC fields read, and JD - 2451545.0 as whole days
\* (nDays) and the minutes over (nMin); Tm is T in thousandths of a century.
\* JD - 2451545.0 = Date.UTC(..) / 86400000 - 10957.5 + hours / 24
julianCentury(date, tzOffset) ==
    LET shifted == timeUTC(date, tzOffset)
        civil == CivilFromDays(shifted \div MinutesPerDay)
        minutes == shifted % MinutesPerDay
        sinceJ2000 == DaysFromCivil(civil.year, civil.month, civil.day) * MinutesPerDay
                      - 15778800 + minutes
    IN  [year |-> civil.year, month |-> civil.month, day |-> civil.day,
         minutes |-> minutes,
         nDays |-> sinceJ2000 \div MinutesPerDay,
         nMin |-> sinceJ2000 % MinutesPerDay,
         Tm |-> ((sinceJ2000 \div MinutesPerDay) * 1000) \div 36525]

\* Lines 46-64: L0, M, e, C, omega, lambda, epsilon
eclipticOf(j) ==
    LET L0 == normalizeAngle360(28047 + (j.nDays * 98564) \div 1000
                                + (j.nDays * 736) \div 1000000
                                + (j.nMin * 6845) \div 100000)
        M == normalizeAngle360(35753 + (j.nDays * 98560) \div 1000
                               + (j.nDays * 28) \div 1000000
                               + (j.nMin * 6845) \div 100000)
        C == DivT((19146 - DivT(48 * j.Tm, 1000)) * MathSin(M)
                  + 200 * MathSin(2 * M) + 3 * MathSin(3 * M), 1000000)
        omega == 12504 - (j.nDays * 52954) \div 10000
    IN  [L0 |-> L0, M |-> M,
         e |-> 16709 - DivT(42 * j.Tm, 1000),
         lambda |-> L0 + C - DivT(569 + DivT(478 * MathSin(omega), Unit), 1000),
         epsilon |-> DivT(2343929 - DivT(1300 * j.Tm, 1000)
                          + DivT(256 * MathCos(omega), Unit), 1000)]

\* Line 70: delta
declinationOf(epsilon, lambda) ==
    MathAsin(DivT(MathSin(epsilon) * MathSin(lambda), Unit))

\* Line 73: y = tan(epsilon / 2)^2
yOf(epsilon) ==
    LET tanHalf == (MathSin(epsilon \div 2) * Unit) \div MathCos(epsilon \div 2)
    IN  (tanHalf * tanHalf) \div 100

\* Lines 76-77: Etime
EtimeOf(L0, M, e, y) ==
    LET EtimeRad ==
            DivT(y * MathSin(2 * L0), Unit)
            - DivT(2 * e * MathSin(M), Unit)
            + DivT(DivT(4 * ((e * y) \div 1000000) * MathSin(M), Unit)
                   * MathCos(2 * L0), Unit)
            - DivT(((y * y) \div 2000000) * MathSin(4 * L0), Unit)
            - DivT(((125 * ((e * e) \div 1000000)) \div 100) * MathSin(2 * M), Unit)
    IN  DivT(EtimeRad * 22918, 1000000)

\* Line 80: timeOffset
timeOffsetOf(Etime, lon) == IF IsNaN(lon) THEN NaN ELSE Etime + DivT(lon * 4, 1000)

\* Line 88: elevation
elevationOf(latC, delta, hourAngle) ==
    IF IsNaN(latC) \/ IsNaN(hourAngle) THEN NaN
    ELSE MathAsin(Max(-Unit, Min(Unit,
             DivT(MathSin(latC) * MathSin(delta), Unit)
             + DivT(DivT(MathCos(latC) * MathCos(delta), Unit)
                    * MathCos(hourAngle), Unit))))

\* Lines 91-94: azimuth
azimuthOf(latC, delta, hourAngle) ==
    IF IsNaN(latC) \/ IsNaN(hourAngle) THEN NaN
    ELSE normalizeAngle360(MathAtan2(
             -MathSin(hourAngle),
             DivT(((MathSin(delta) * Unit) \div MathCos(delta)) * MathCos(latC), Unit)
             - DivT(MathSin(latC) * MathCos(hourAngle), Unit)))

\* Line 96: the result.  Beside the two angles the record keeps the locals
\* the contracts speak of.
sunAngles(j, latC, Etime, delta, trueSolarTime, hourAngle) ==
    [elevationDeg |-> elevationOf(latC, delta, hourAngle),
     azimuthDeg |-> azimuthOf(latC, delta, hourAngle),
     year |-> j.year, month |-> j.month, day |-> j.day, minutes |-> j.minutes,
     Etime |-> Etime, delta |-> delta,
     trueSolarTime |-> trueSolarTime, hourAngle |-> hourAngle]

sunFromSolarTime(j, latC, Etime, delta, trueSolarTime) ==
    sunAngles(j, latC, Etime, delta, trueSolarTime, hourAngleOf(trueSolarTime))

sunFromEtime(j, latC, lon, Etime, delta) ==
    sunFromSolarTime(j, latC, Etime, delta,
                     trueSolarTimeOf(j.minutes, timeOffsetOf(Etime, lon)))

sunFromEcliptic(j, lat, lon, ecl) ==
    sunFromEtime(j, ToCdeg(lat), lon,
                 EtimeOf(ecl.L0, ecl.M, ecl.e, yOf(ecl.epsilon)),
                 declinationOf(ecl.epsilon, ecl.lambda))

sunFromJulian(j, lat, lon) == sunFromEcliptic(j, lat, lon, eclipticOf(j))

getSunAnglesForTime(lat, lon, date, tzOffset) ==
    sunFromJulian(julianCentury(date, tzOffset), lat, lon)

---------------------------------------------------------------------------
(* components/SearchBar.tsx: parseFloat of a geocoder string.  A string is *)
(* a sequence of one-character strings; the value is in deg5.              *)

Digits == {"0", "1", "2", "3", "4", "5", "6", "7", "8", "9"}

DigitValue(c) ==
    CASE c = "0" -> 0 [] c = "1" -> 1 [] c = "2" -> 2 [] c = "3" -> 3
      [] c = "4" -> 4 [] c = "5" -> 5 [] c = "6" -> 6 [] c = "7" -> 7
      [] c = "8" -> 8 [] c = "9" -> 9

\* The number of leading digits of str from position i on.
RECURSIVE DigitRun(_, _)
DigitRun(str, i) ==
    IF i <= Len(str) /\ str[i] \in Digits THEN 1 + DigitRun(str, i + 1) ELSE 0

\* The value of the n digits of str from position i on.
RECURSIVE DigitsValue(_, _, _)
DigitsValue(str, i, n) ==
    IF n = 0 THEN 0
    ELSE DigitsValue(str, i, n - 1) * 10 + DigitValue(str[i + n - 1])

\* The first five digits after the point, as a number of 10^-5.
FractionValue(str, i, n) ==
    LET used == Min(n, 5)
    IN  DigitsValue(str, i, used) * 10^(5 - used)

\* parseFloat: an optional sign, digits, an optional point and digits; what
\* follows is ignored; NaN when no digit was read.  (Leading white space,
\* exponents and "Infinity" are not in the model's strings.)
parseFloat(str) ==
    LET signed == Len(str) >= 1 /\ str[1] \in {"-", "+"}
        start == IF signed THEN 2 ELSE 1
        intLen == DigitRun(str, start)
        dot == start + intLen
        hasDot == dot <= Len(str) /\ str[dot] = "."
        fracLen == IF hasDot THEN DigitRun(str, dot + 1) ELSE 0
        magnitude == DigitsValue(str, start, intLen) * Deg5
                     + FractionValue(str, dot + 1, fracLen)
    IN  IF intLen = 0 /\ fracLen = 0 THEN NaN
        ELSE IF signed /\ str[1] = "-" THEN -magnitude
        ELSE magnitude

---------------------------------------------------------------------------
(* components/Map.tsx: the heatmap effect (lines 98-146) *)

GridRadiusMeters == 25000
CoarseSpacingMeters == 2000
FineSpacingMeters == 1500
FineZoom == 13

StatusLoading == "Loading weather..."
StatusUnavailable == "Weather unavailable."
StatusSunOutOfRange == "Conditions unfavorable (Sun too low/high)."
StatusNoResults == "No likely rainbow areas nearby."
StatusNone == ""

\* weatherAtCell: the hourly entry of the offset when there is one, else
\* the current sample (lines 121-126).  hourly[k] is the (k+1)-th entry.
weatherAtCell(response, offsetHours) ==
    IF Len(response.hourly) > offsetHours
    THEN response.hourly[offsetHours + 1]
    ELSE response.current

\* (sun.azimuthDeg + 180) % 360
antisolarAzimuth(azimuthDeg) ==
    IF IsNaN(azimuthDeg) THEN NaN ELSE JsRem(azimuthDeg + 18000, 36000)

\* A variant that also keeps the cells scored 0.
KeepCellNonNegative(rps) == ~IsNaN(rps) /\ rps >= 0

\* rps > 0 (line 139); false for NaN
KeepCell(rps) == ~IsNaN(rps) /\ rps > 0

\* The gate of line 110.
passSunGate(elevationDeg) == SunOutOfRange(elevationDeg)

NoPass ==
    [ran |-> FALSE, lat |-> 0, lon |-> 0, gridSize |-> 0, elevationDeg |-> 0,
     gated |-> FALSE, scores |-> <<>>, kept |-> <<>>, points |-> <<>>,
     status |-> StatusNone]

\* The body of the effect past its guards (lines 103-145), a step at a
\* time.  The result of a pass:
\*   gridSize : the length of the grid built at line 103
\*   gated    : the sun gate returned early (lines 110-115)
\*   scores   : rps of each cell, in grid order
\*   kept     : the indices of the cells pushed (lines 139-141)
\*   points   : what setLatLngs was given; status : what setStatus was given

\* Lines 119-137: rps of every cell
scoreCells(c, sample, grid, sun) ==
    [i \in 1..Len(grid) |->
       computeRainbowProbabilityScore(
         [antisolarAzimuthDeg |-> antisolarAzimuth(sun.azimuthDeg),
          sunElevationDeg |-> sun.elevationDeg,
          weather |-> sample,
          bearingUserToCellDeg |->
              computeBearingDegrees(c.lat, c.lon, grid[i].lat, grid[i].lon)])]

\* Line 139: the cells pushed
keptCells(scores) ==
    LET Pushed(i) == KeepCell(scores[i])
    IN  SelectSeq([i \in 1..Len(scores) |-> i], Pushed)

\* Line 140: what is pushed
pushedPoints(grid, scores, kept) ==
    [j \in 1..Len(kept) |->
       [lat |-> grid[kept[j]].lat, lon |-> grid[kept[j]].lon,
        w |-> MathMax(0, MathMin(Unit, scores[kept[j]]))]]

\* Lines 144-145
effectEnd(c, sun, grid, scores, kept, points) ==
    [ran |-> TRUE, lat |-> c.lat, lon |-> c.lon, gridSize |-> Len(grid),
     elevationDeg |-> sun.elevationDeg, gated |-> FALSE,
     scores |-> scores, kept |-> kept, points |-> points,
     status |-> IF Len(points) > 0 THEN StatusNone ELSE StatusNoResults]

effectKept(c, sun, grid, scores, kept) ==
    effectEnd(c, sun, grid, scores, kept, pushedPoints(grid, scores, kept))

effectScored(c, sun, grid, scores) ==
    effectKept(c, sun, grid, scores, keptCells(scores))

\* Lines 110-145: the sun gate, then the loop
effectGate(c, sample, grid, sun) ==
    IF passSunGate(sun.elevationDeg)
    THEN [ran |-> TRUE, lat |-> c.lat, lon |-> c.lon, gridSize |-> Len(grid),
          elevationDeg |-> sun.elevationDeg, gated |-> TRUE,
          scores |-> <<>>, kept |-> <<>>, points |-> <<>>,
          status |-> StatusSunOutOfRange]
    ELSE effectScored(c, sun, grid, scoreCells(c, sample, grid, sun))

\* Lines 103-108: the grid, then the sun, for centre c, grid spacing
\* `spacing`, the data point `sample`, effectiveTs and the host's offset
effectBody(c, spacing, sample, effectiveTs, tzOff) ==
    effectGate(c, sample,
               buildGridAround(c.lat, c.lon, GridRadiusMeters, spacing).points,
               getSunAnglesForTime(c.lat, c.lon, effectiveTs, tzOff))

---------------------------------------------------------------------------
(* components/Map.tsx, App.tsx, components/SearchBar.tsx: the handlers.    *)
(* A handler's state updates are followed, in the same step, by the        *)
(* effects React runs for them: the weather effect when center.lat or      *)
(* center.lon changed, then the heatmap effect when one of center.lat,     *)
(* center.lon, zoom, timeOffsetHours, owm changed.                         *)

MaxFetches == 3

Paris == [lat |-> 4885000, lon |-> 235000]

\* data[0] of the geocoder's answers: lat and lon as strings
GeocoderResults ==
    {[lat |-> <<"4", "8", ".", "8", "5">>, lon |-> <<"2", ".", "3", "5">>],
     [lat |-> <<"9", "1", ".", "5">>, lon |-> <<"1", "0">>],
     [lat |-> <<"n", "/", "a">>, lon |-> <<>>]}

\* navigator.geolocation positions
Positions == {Paris}

\* moveend / zoomend: the map's centre and zoom.  Leaflet does not wrap the
\* longitude of getCenter().
MovedEvents ==
    {[c |-> [lat |-> 100000, lon |-> 19000000], z |-> 12],
     [c |-> Paris, z |-> 13]}

\* new Date(): 2024-06-21T06:00Z, then 2024-06-21T12:00Z
ClockInstants == <<28649160, 28649520>>

AppHostOffsets == {0, -120}

RainySample ==
    [rain |-> RainHourly(30), clouds |-> Num(50), visibility |-> Num(10000),
     weather |-> <<500>>]
DrySample ==
    [rain |-> RainAbsent, clouds |-> Num(20), visibility |-> Num(10000),
     weather |-> <<800>>]

\* OneCallResponse bodies: current and hourly
ResponseBodies ==
    {[current |-> RainySample, hourly |-> <<RainySample, DrySample>>],
     [current |-> DrySample, hourly |-> <<>>]}

\* The centres the handlers can set
Centers ==
    {[lat |-> 0, lon |-> 0]} \cup Positions \cup {ev.c : ev \in MovedEvents}
        \cup {[lat |-> parseFloat(r.lat), lon |-> parseFloat(r.lon)] :
                r \in GeocoderResults}

\* The data points of the responses
Samples ==
    UNION {{body.current} \cup {body.hourly[i] : i \in 1..Len(body.hourly)} :
             body \in ResponseBodies}

\* The centres with the grid spacing of the zooms they are shown at: every
\* handler but handleMoved sets zoom 12.
CenterSpacings ==
    {<<c, CoarseSpacingMeters>> : c \in Centers}
        \cup {<<ev.c, FineSpacingMeters>> : ev \in {m \in MovedEvents : m.z >= FineZoom}}

\* effectBody on every argument the application can give it, each evaluated
\* once: <<arguments, result>>
EffectBodies ==
    {<<<<k[1][1], k[1][2], k[2], k[3], k[4]>>,
       effectBody(k[1][1], k[1][2], k[2], k[3], k[4])>> :
       k \in CenterSpacings \X Samples
               \X {ClockInstants[i] + 60 * h : i \in 1..Len(ClockInstants), h \in 0..2}
               \X AppHostOffsets}

\* One run of the heatmap effect past its guards, at instant `date` on a
\* host with tzOff (lines 103-145)
heatmapPass(c, z, offsetHours, response, date, tzOff) ==
    LET k == <<c, IF z >= FineZoom THEN FineSpacingMeters ELSE CoarseSpacingMeters,
               weatherAtCell(response, offsetHours), date + 60 * offsetHours, tzOff>>
    IN  (CHOOSE e \in EffectBodies : e[1] = k)[2]

\* The dependencies of the heatmap effect changed (Object.is on each; a
\* fetched response is a new object, so `fresh` counts as a change).
heatDepsChanged(c, z, o, fresh) ==
    \/ c.lat # center.lat \/ c.lon # center.lon
    \/ z # zoom
    \/ o # timeOffsetHours
    \/ fresh

\* The dependencies of the weather effect changed.
weatherDepsChanged(c) == c.lat # center.lat \/ c.lon # center.lon

\* The weather effect (lines 61-78) up to its await: the cleanup of the
\* previous run sets its `aborted`, then a new fetch is issued.
weatherEffect(pending, c) ==
    {[f EXCEPT !.aborted = TRUE] : f \in pending}
        \cup {[id |-> issued + 1, lat |-> c.lat, lon |-> c.lon, aborted |-> FALSE]}

\* The state after a handler set (c, z, o, w) and React rendered and ran
\* the effects of that render (the cleanup of an effect whose dependencies
\* changed, then the effects in the order declared), as one step: w is the
\* new owm and `fresh` says it was just set, `set` is the status the
\* handler set and `pending` the fetches it left in flight.
Render(c, z, o, w, fresh, set, pending) ==
    LET refetch == weatherDepsChanged(c)
        rerun == heatDepsChanged(c, z, o, fresh)
        runs == rerun /\ heatReady /\ Len(w) > 0
        pass == heatmapPass(c, z, o, w[1], ClockInstants[clock], hostOffset)
    IN  /\ refetch => issued < MaxFetches
        /\ center' = c
        /\ zoom' = z
        /\ timeOffsetHours' = o
        /\ owm' = w
        /\ fetches' = IF refetch THEN weatherEffect(pending, c) ELSE pending
        /\ issued' = IF refetch THEN issued + 1 ELSE issued
        /\ heat' = IF runs THEN pass.points ELSE heat
        /\ lastPass' = IF runs THEN pass ELSE lastPass
        /\ status' = IF runs THEN pass.status
                     ELSE IF refetch THEN StatusLoading
                     ELSE set
        /\ UNCHANGED <<heatReady, clock, hostOffset, callVars>>

\* MapViewHandle.flyTo(c, z) (lines 49-53)
flyTo(c, z) == Render(c, z, timeOffsetHours, owm, FALSE, status, fetches)

\* handleMoved (lines 56-59)
handleMoved(ev) == Render(ev.c, ev.z, timeOffsetHours, owm, FALSE, status, fetches)

\* SearchBar.doSearch resolving with data[0] = r (lines 26-32), then
\* App.onSearchSelected (lines 54-58)
onSearchSelected(r) ==
    flyTo([lat |-> parseFloat(r.lat), lon |-> parseFloat(r.lon)], 12)

\* App.handleLocateMe, and App's effect on `position`
handleLocateMe(pos) == flyTo(pos, 12)

\* The Now / +1h / +2h buttons
setTimeOffsetHours(h) == Render(center, zoom, h, owm, FALSE, status, fetches)

\* A variant of lines 67-71 without the test of `aborted`.
fetchResolvedUnguarded(f, body) ==
    Render(center, zoom, timeOffsetHours,
           <<[lat |-> f.lat, lon |-> f.lon,
              current |-> body.current, hourly |-> body.hourly]>>,
           TRUE, StatusNone, fetches \ {f})

\* fetchOneCall resolves with `body` (lines 67-71)
fetchResolved(f, body) ==
    IF f.aborted
    THEN /\ fetches' = fetches \ {f}
         /\ UNCHANGED <<center, zoom, owm, status, timeOffsetHours, heatReady,
                        heat, issued, lastPass, clock, hostOffset, callVars>>
    ELSE Render(center, zoom, timeOffsetHours,
                <<[lat |-> f.lat, lon |-> f.lon,
                   current |-> body.current, hourly |-> body.hourly]>>,
                TRUE, StatusNone, fetches \ {f})

\* fetchOneCall rejects (lines 72-75)
fetchRejected(f) ==
    /\ fetches' = fetches \ {f}
    /\ status' = IF f.aborted THEN status ELSE StatusUnavailable
    /\ UNCHANGED <<center, zoom, owm, timeOffsetHours, heatReady, heat, issued,
                   lastPass, clock, hostOffset, callVars>>

\* Time passes on the host.
Tick ==
    /\ clock < Len(ClockInstants)
    /\ clock' = clock + 1
    /\ UNCHANGED <<center, zoom, owm, status, timeOffsetHours, heatReady, heat,
                   fetches, issued, lastPass, hostOffset, callVars>>

\* MapView mounted by App with initialCenter (0, 0) and initialZoom 2
\* (App's center is still null): the weather effect has issued its first
\* fetch, the heatmap effect has returned at once (owm is null).  Whether
\* the map instance was there for the heat-layer effect (lines 80-96), which
\* runs only once, is up to react-leaflet.
AppInit ==
    /\ center = [lat |-> 0, lon |-> 0]
    /\ zoom = 2
    /\ owm = <<>>
    /\ status = StatusLoading
    /\ timeOffsetHours = 0
    /\ heatReady \in BOOLEAN
    /\ heat = <<>>
    /\ fetches = {[id |-> 1, lat |-> 0, lon |-> 0, aborted |-> FALSE]}
    /\ issued = 1
    /\ lastPass = NoPass
    /\ clock = 1
    /\ hostOffset \in AppHostOffsets

\* The components are not mounted.
AppIdle ==
    /\ center = [lat |-> 0, lon |-> 0]
    /\ zoom = 2
    /\ owm = <<>>
    /\ status = StatusNone
    /\ timeOffsetHours = 0
    /\ heatReady = FALSE
    /\ heat = <<>>
    /\ fetches = {}
    /\ issued = 0
    /\ lastPass = NoPass
    /\ clock = 1
    /\ hostOffset = 0

---------------------------------------------------------------------------
(* One call of getSunAnglesForTime on drawn arguments, on a drawn host *)

SunLatitudes == {0, 4885000, -3390000, 6000000}
SunLongitudes == {0, 235000, -12242000, 15120000, -18000000}
\* 2024-03-20T02:00Z, 2024-06-21T06:00Z, 2024-06-21T12:00Z,
\* 2024-12-21T23:30Z, 2026-11-05T09:00Z
SunInstants == {28515000, 28649160, 28649520, 28913730, 29897820}
\* getTimezoneOffset() of hosts at UTC, UTC+2, UTC-8 and UTC+5:30
HostOffsets == {0, -120, 480, -330}

NoSunResult == getSunAnglesForTime(0, 0, 0, 0)

SunIdle ==
    [lat |-> 0, lon |-> 0, date |-> 0, tzOffset |-> 0, done |-> TRUE,
     ret |-> NoSunResult]

SunCalls ==
    [lat : SunLatitudes, lon : SunLongitudes, date : SunInstants,
     tzOffset : HostOffsets, done : {FALSE}, ret : {NoSunResult}]

---------------------------------------------------------------------------
(* One call of buildGridAround on drawn arguments *)

MaxRadiusSteps == 10
MaxSpacingSteps == 4

GridCenters ==
    {[lat |-> 0, lon |-> 0], [lat |-> 4885000, lon |-> 235000],
     [lat |-> -3390000, lon |-> -17999000]}

\* radius and spacing: non-positive ones, small ones, and the two pairs
\* MapView passes (25000 with 2000 or 1500).
GridArgs ==
    ({250 * k : k \in -1..MaxRadiusSteps} \X {500 * k : k \in -1..MaxSpacingSteps})
        \cup {<<25000, 2000>>, <<25000, 1500>>}

GridIdle ==
    [lat |-> 0, lon |-> 0, radiusMeters |-> 0, spacingMeters |-> 0,
     state |-> "idle", offsets |-> <<>>, points |-> <<>>]

GridCalls ==
    {[lat |-> c.lat, lon |-> c.lon, radiusMeters |-> a[1], spacingMeters |-> a[2],
      state |-> "called", offsets |-> <<>>, points |-> <<>>] :
        c \in GridCenters, a \in GridArgs}

gridResult ==
    buildGridAround(gridCall.lat, gridCall.lon,
                    gridCall.radiusMeters, gridCall.spacingMeters)

\* The call returns its points.
GridReturn ==
    /\ gridCall.state = "called"
    /\ gridResult.returns
    /\ gridCall' = [gridCall EXCEPT !.state = "returned",
                                    !.offsets = gridResult.offsets,
                                    !.points = gridResult.points]
    /\ UNCHANGED <<scoreCall, sunCall, appVars>>

\* The call never leaves its loop.
GridLoopsForever ==
    /\ gridCall.state = "called"
    /\ ~gridResult.returns
    /\ gridCall' = [gridCall EXCEPT !.state = "looping"]
    /\ UNCHANGED <<scoreCall, sunCall, appVars>>

GridInit ==
    /\ gridCall \in GridCalls
    /\ scoreCall = ScoreIdle
    /\ sunCall = SunIdle
    /\ AppIdle

GridNext == GridReturn \/ GridLoopsForever

SpecGrid == GridInit /\ [][GridNext]_vars

---------------------------------------------------------------------------
(* The call of computeRainbowProbabilityScore *)

ScoreInit ==
    /\ scoreCall \in [p : ScoreParams, done : {FALSE}, ret : {NoScoreResult}]
    /\ gridCall = GridIdle
    /\ sunCall = SunIdle
    /\ AppIdle

\* The call returns; beside the score the record keeps the two locals the
\* contracts speak of (deltaTheta and mmh, computed only past the gate).
ScoreReturn ==
    /\ ~scoreCall.done
    /\ LET p == scoreCall.p
           gated == SunOutOfRange(p.sunElevationDeg)
       IN  scoreCall' =
             [scoreCall EXCEPT
                !.done = TRUE,
                !.ret = [score |-> computeRainbowProbabilityScore(p),
                         deltaTheta |-> IF gated THEN 0
                                        ELSE deltaTheta(p.bearingUserToCellDeg,
                                                        p.antisolarAzimuthDeg),
                         mmh |-> IF gated THEN 0 ELSE rainRate(p.weather)]]
    /\ UNCHANGED <<gridCall, sunCall, appVars>>

ScoreNext == ScoreReturn

SpecScore == ScoreInit /\ [][ScoreNext]_vars

---------------------------------------------------------------------------
(* The call of getSunAnglesForTime *)

SunInit ==
    /\ sunCall \in SunCalls
    /\ scoreCall = ScoreIdle
    /\ gridCall = GridIdle
    /\ AppIdle

SunReturn ==
    /\ ~sunCall.done
    /\ sunCall' = [sunCall EXCEPT
                     !.done = TRUE,
                     !.ret = getSunAnglesForTime(sunCall.lat, sunCall.lon,
                                                 sunCall.date, sunCall.tzOffset)]
    /\ UNCHANGED <<scoreCall, gridCall, appVars>>

SunNext == SunReturn

SpecSun == SunInit /\ [][SunNext]_vars

---------------------------------------------------------------------------
(* The application *)

Init ==
    /\ AppInit
    /\ scoreCall = ScoreIdle
    /\ gridCall = GridIdle
    /\ sunCall = SunIdle

Next ==
    \/ \E r \in GeocoderResults : onSearchSelected(r)
    \/ \E pos \in Positions : handleLocateMe(pos)
    \/ \E ev \in MovedEvents : handleMoved(ev)
    \/ \E h \in 0..2 : setTimeOffsetHours(h)
    \/ \E f \in fetches : \E body \in ResponseBodies : fetchResolved(f, body)
    \/ \E f \in fetches : fetchRejected(f)
    \/ Tick

Spec == Init /\ [][Next]_vars

---------------------------------------------------------------------------
(* Properties of computeRainbowProbabilityScore, under SpecScore *)

\* C1: a call with sun elevation <= 0 or >= 42 degrees returns exactly 0,
\* whatever the bearing, the antisolar azimuth and the weather fields are
\* (absent, present, outside their documented ranges).
C1_GatedScoreIsZero ==
    (scoreCall.done
     /\ (scoreCall.p.sunElevationDeg <= 0
         \/ scoreCall.p.sunElevationDeg >= 42 * 100))
        => scoreCall.ret.score = 0

\* A gated call whose weather alone would not give 0: rain present (or
\* negative, where the ungated product is NaN), in both gated bands.
C1_Witness ==
    /\ scoreCall.done
    /\ scoreCall.p.sunElevationDeg >= 42 * 100
    /\ scoreCall.p.weather.rain = RainNumber(30)
    /\ scoreCall.p.weather.clouds = Num(50)
    /\ scoreCall.p.weather.visibility = Absent
    /\ scoreCall.ret.score = 0

\* The inputs the data model documents: rain rate >= 0 or absent, cloud
\* cover in [0, 100] or absent, visibility >= 0 or absent, bearings in
\* [0, 360).
ValidScoreParams(p) ==
    /\ p.weather.rain.v >= 0
    /\ p.weather.clouds.v >= 0 /\ p.weather.clouds.v <= 100
    /\ p.weather.visibility.v >= 0
    /\ p.bearingUserToCellDeg >= 0 /\ p.bearingUserToCellDeg < 36000
    /\ p.antisolarAzimuthDeg >= 0 /\ p.antisolarAzimuthDeg < 36000

\* C2: for valid weather and sun inputs the score lies in [0, 1] (and is a
\* number).
C2_ScoreInUnitInterval ==
    (scoreCall.done /\ ValidScoreParams(scoreCall.p))
        => (~IsNaN(scoreCall.ret.score)
            /\ scoreCall.ret.score >= 0 /\ scoreCall.ret.score <= Unit)

\* A valid call past the gate whose score is strictly inside (0, 1).
C2_Witness ==
    /\ scoreCall.done
    /\ ValidScoreParams(scoreCall.p)
    /\ ~SunOutOfRange(scoreCall.p.sunElevationDeg)
    /\ scoreCall.ret.score > 0 /\ scoreCall.ret.score < Unit

\* The rate the stated priority gives: the scalar when present, else the
\* '1h' value when present, else 0.2 mm/h for a condition code in
\* [300, 400) or [500, 600), else 0.
PriorityRate(weather) ==
    IF weather.rain.tag = "number" THEN weather.rain.v
    ELSE IF weather.rain.tag = "object" /\ weather.rain.has1h THEN weather.rain.v
    ELSE IF Len(weather.weather) > 0
            /\ ((weather.weather[1] >= 300 /\ weather.weather[1] < 400)
                \/ (weather.weather[1] >= 500 /\ weather.weather[1] < 600))
         THEN 2
    ELSE 0

\* C5: the rain rate used follows the priority exactly: an explicit scalar
\* rate when present (whatever its value, 0 included), else a present '1h'
\* value, else 0.2 mm/h for a drizzle or rain condition code, else 0.
C5_RainRatePriority ==
    (scoreCall.done /\ ~SunOutOfRange(scoreCall.p.sunElevationDeg))
        => scoreCall.ret.mmh = PriorityRate(scoreCall.p.weather)

\* C10: for bearings in [0, 360) the angular distance the scorer computes
\* lies in [0, 180] and is the same with the cell bearing and the antisolar
\* azimuth swapped.
C10_DeltaThetaRangeAndSymmetry ==
    (scoreCall.done /\ ~SunOutOfRange(scoreCall.p.sunElevationDeg)
     /\ scoreCall.p.bearingUserToCellDeg \in 0..35999
     /\ scoreCall.p.antisolarAzimuthDeg \in 0..35999)
        => (scoreCall.ret.deltaTheta >= 0
            /\ scoreCall.ret.deltaTheta <= 18000
            /\ scoreCall.ret.deltaTheta
                 = deltaTheta(scoreCall.p.antisolarAzimuthDeg,
                              scoreCall.p.bearingUserToCellDeg))

\* A call whose bearings are more than 180 degrees apart on the number
\* line, so that the distance goes the other way round, and one where the
\* bearing is the smaller of the two.
C10_Witness ==
    /\ scoreCall.done /\ ~SunOutOfRange(scoreCall.p.sunElevationDeg)
    /\ scoreCall.p.bearingUserToCellDeg = 35999
    /\ scoreCall.p.antisolarAzimuthDeg = 4500
    /\ scoreCall.ret.deltaTheta = 4501

---------------------------------------------------------------------------
(* Properties of buildGridAround, under SpecGrid *)

\* C4: a call with radiusMeters <= 0 or spacingMeters <= 0 is rejected with
\* an InvalidGridConfig failure: it neither returns a grid nor loops.
C4_InvalidGridConfigRejected ==
    (gridCall.state # "called"
     /\ (gridCall.radiusMeters <= 0 \/ gridCall.spacingMeters <= 0))
        => gridCall.state = "rejected"

\* (ix, iy) comes before (jx, jy) in row-major order.
RowMajorBefore(a, b) == a.iy < b.iy \/ (a.iy = b.iy /\ a.ix < b.ix)

\* The lattice offsets within the radius: half = floor(ceil(2R/S) / 2).
LatticeWithin(R, S) ==
    LET half == CeilDiv(2 * R, S) \div 2
    IN  {o \in [ix : -half..half, iy : -half..half] :
            (o.ix * S) * (o.ix * S) + (o.iy * S) * (o.iy * S) <= R * R}

\* C6: for radius > 0 and spacing > 0 the call returns exactly the lattice
\* offsets within the radius, each once, in row-major order (iy outer, ix
\* inner, both ascending), each as offsetMetersToLatLon of its offset.
C6_GridIsCroppedLatticeInRowMajorOrder ==
    (gridCall.state # "called"
     /\ gridCall.radiusMeters > 0 /\ gridCall.spacingMeters > 0)
        => LET R == gridCall.radiusMeters
               S == gridCall.spacingMeters
               offs == gridCall.offsets
           IN  /\ gridCall.state = "returned"
               /\ Len(gridCall.points) = Len(offs)
               /\ \A i \in 1..Len(offs) : offs[i] \in LatticeWithin(R, S)
               /\ \A o \in LatticeWithin(R, S) : \E i \in 1..Len(offs) : offs[i] = o
               /\ \A i \in 1..(Len(offs) - 1) : RowMajorBefore(offs[i], offs[i + 1])
               /\ \A i \in 1..Len(offs) :
                     gridCall.points[i]
                       = offsetMetersToLatLon(gridCall.lat, gridCall.lon,
                                              offs[i].ix * S, offs[i].iy * S)

\* MapView's own call (25000, 2000): 489 of the 625 lattice points are
\* kept, the corner (-12, -12) is cropped and the first point is (-3, -12).
C6_Witness ==
    /\ gridCall.state = "returned"
    /\ gridCall.radiusMeters = 25000 /\ gridCall.spacingMeters = 2000
    /\ Len(gridCall.points) = 489
    /\ gridCall.offsets[1] = [ix |-> -3, iy |-> -12]

---------------------------------------------------------------------------
(* Properties of getSunAnglesForTime, under SpecSun *)

\* C7: the solar position works entirely in UTC: the calendar day and the
\* time of day fed to the Julian Day and true-solar-time steps are the UTC
\* fields of the supplied instant, so the elevation and azimuth are those
\* of any other host (here: one at UTC) for the same (lat, lon, instant).
C7_SolarPositionWorksInUtc ==
    sunCall.done
        => LET utc == CivilFromDays(sunCall.date \div MinutesPerDay)
               atUtc == getSunAnglesForTime(sunCall.lat, sunCall.lon, sunCall.date, 0)
           IN  /\ sunCall.ret.year = utc.year
               /\ sunCall.ret.month = utc.month
               /\ sunCall.ret.day = utc.day
               /\ sunCall.ret.minutes = sunCall.date % MinutesPerDay
               /\ sunCall.ret.elevationDeg = atUtc.elevationDeg
               /\ sunCall.ret.azimuthDeg = atUtc.azimuthDeg


\* C11: for a longitude in [-180, 180) the hour angle lies in [-180, 180]
\* and is t / 4 - 180, t being hours * 60 + timeOffset reduced to
\* [0, 1440) by the non-negative modulo, also when the remainder of
\* line 81 is negative.
C11_HourAngleOfNonNegativeModulo ==
    (sunCall.done
     /\ sunCall.lon >= -180 * Deg5 /\ sunCall.lon < 180 * Deg5)
        => LET sum == sunCall.ret.minutes * 100
                      + timeOffsetOf(sunCall.ret.Etime, sunCall.lon)
               t == sum % (MinutesPerDay * 100)
           IN  /\ sunCall.ret.hourAngle >= -18000
               /\ sunCall.ret.hourAngle <= 18000
               /\ sunCall.ret.hourAngle = t \div 4 - 18000

\* A call at a western longitude early in the UTC day: the remainder of
\* line 81 is negative and the hour angle is on the positive side.
C11_Witness ==
    /\ sunCall.done
    /\ sunCall.lon < 0
    /\ sunCall.ret.minutes * 100 + timeOffsetOf(sunCall.ret.Etime, sunCall.lon) < 0
    /\ sunCall.ret.trueSolarTime < 0
    /\ sunCall.ret.hourAngle > 0

---------------------------------------------------------------------------
(* Properties of MapView's heatmap effect, under Spec *)

\* C3: a pass whose sun elevation is <= 0 or >= 42 degrees ends with an
\* empty cell list and the sun-out-of-range status, and builds no grid.
C3_GatedPassBuildsNoGrid ==
    (lastPass.ran /\ SunOutOfRange(lastPass.elevationDeg))
        => (/\ lastPass.gated
            /\ lastPass.points = <<>>
            /\ heat = <<>>
            /\ lastPass.status = StatusSunOutOfRange
            /\ lastPass.gridSize = 0)

\* The indices pushed by the last pass
KeptSet == {lastPass.kept[j] : j \in 1..Len(lastPass.kept)}

\* C8: in a pass with the sun in range a cell of the grid is pushed if and
\* only if its score is > 0, each once and in grid order with its score as
\* weight; the pass sets the no-results status exactly when nothing was
\* pushed and the empty (favorable) status otherwise.
C8_KeptIffPositiveScore ==
    (lastPass.ran /\ ~lastPass.gated)
        => (/\ Len(lastPass.scores) = lastPass.gridSize
            /\ \A i \in 1..lastPass.gridSize :
                  (i \in KeptSet)
                    <=> (~IsNaN(lastPass.scores[i]) /\ lastPass.scores[i] > 0)
            /\ \A j \in 1..(Len(lastPass.kept) - 1) :
                  lastPass.kept[j] < lastPass.kept[j + 1]
            /\ Len(lastPass.points) = Len(lastPass.kept)
            /\ \A j \in 1..Len(lastPass.kept) :
                  lastPass.points[j].w = lastPass.scores[lastPass.kept[j]]
            /\ heat = lastPass.points
            /\ (lastPass.status = StatusNoResults) <=> (Len(lastPass.kept) = 0)
            /\ (lastPass.status = StatusNone) <=> (Len(lastPass.kept) > 0))

\* A pass with the sun in range that pushed some cells of its grid and not
\* others, scores of 0 among those left out.
C8_Witness ==
    /\ lastPass.ran /\ ~lastPass.gated
    /\ Len(lastPass.kept) > 0
    /\ Len(lastPass.kept) < lastPass.gridSize
    /\ \E i \in 1..lastPass.gridSize : lastPass.scores[i] = 0
    /\ lastPass.status = StatusNone

\* A latitude in [-90, 90] and a longitude in [-180, 180), both numbers
ValidCoordinate(lat, lon) ==
    /\ ~IsNaN(lat) /\ ~IsNaN(lon)
    /\ lat >= -90 * Deg5 /\ lat <= 90 * Deg5
    /\ lon >= -180 * Deg5 /\ lon < 180 * Deg5

\* C9: an invalid latitude or longitude, a non-number parsed from a
\* geocoding result included, never becomes the centre, no weather is
\* fetched for it and no pass runs on it.
C9_InvalidCoordinateRejected ==
    /\ ValidCoordinate(center.lat, center.lon)
    /\ \A f \in fetches : ValidCoordinate(f.lat, f.lon)
    /\ lastPass.ran => ValidCoordinate(lastPass.lat, lastPass.lon)

---------------------------------------------------------------------------
(* Properties of MapView's weather effect, under Spec *)

\* C12: whatever the order of centre changes and fetch completions, a
\* fetch that completes after a later centre change superseded it changes
\* neither the stored weather nor the status (nor the heatmap); a fetch
\* whose outcome is applied is the last one issued and was issued for the
\* current centre; and the stored weather only ever changes to a response
\* fetched for the current centre.
C12_StaleFetchNeverApplied ==
    [][/\ \A f \in fetches :
             (\A g \in fetches' : g.id # f.id)
                => IF f.aborted
                   THEN UNCHANGED <<center, owm, status, heat, lastPass>>
                   ELSE /\ f.id = issued
                        /\ f.lat = center.lat
                        /\ f.lon = center.lon
        /\ (owm' # owm)
             => (/\ Len(owm') = 1
                 /\ owm'[1].lat = center'.lat
                 /\ owm'[1].lon = center'.lon)]_vars

\* The response for the current centre is stored while the fetch issued
\* for an earlier, different centre is still in flight: it will complete
\* out of order.
C12_Witness ==
    /\ Len(owm) = 1
    /\ owm[1].lat = center.lat /\ owm[1].lon = center.lon
    /\ \E f \in fetches :
          f.aborted /\ (f.lat # center.lat \/ f.lon # center.lon)

====
